---- MODULE Spec2Model ----
(***************************************************************************)
(* Model of the d2fn deduplicator of nas-toolbox: the duplicate engine     *)
(* (src/src/duplicate.rs), the hasher (src/src/hash.rs) and the inventory  *)
(* codec (src/d2fn/src/inventory.rs).                                      *)
(*                                                                         *)
(* Byte strings are sequences of numbers 0..255.  A blake3 hash is         *)
(* modelled by the byte sequence that was fed to the hasher: the hasher    *)
(* is taken to be collision free, so two hashes are equal exactly when     *)
(* the fed bytes are equal.  Sizes are scaled: the 1 MiB scratch buffer    *)
(* of checksum_file is CHUNK_SIZE bytes here.                              *)
(***************************************************************************)
EXTENDS Integers, Sequences, FiniteSets, TLC

VARIABLES
    records,          \* Duplicate.records: Vec<File>, as a sequence of paths
    inode_set,        \* Duplicate.inode_set
    set,              \* Duplicate.set: ClassifyingKey -> PreviousScanned
    hash2files,       \* Duplicate.hash2files: partial hash -> Vec<RecordIndex>
    full_hash2files,  \* Duplicate.full_hash2files: full hash -> Vec<RecordIndex>
    status,           \* Duplicate.status: scanned and duplicated counters
    item,             \* discover: the path the walker yielded last (0: none yet)
    last,             \* the engine call that ran last, and how it returned
    conflict_count,   \* verify: its local conflict_count when it returned
    filter_kind,      \* Duplicate.filter: NoFilter or DefaultFilter
    part_hashed,      \* for each path, the calls of checksum_file(.., Part) push made on it
    tree,             \* the files of the tree, in the order the walker yields them
    walk,             \* the call of discover at work, and the next file of the tree
    status_channel,   \* Duplicate.status_channel: None, Some(tx), or dropped with the engine
    status_report_step, \* Duplicate.status_report_step
    sent,             \* the reports sent on the channel, in order
    scan_pc,          \* main thread: where it is in scan, or past it
    consumer,         \* the spawned thread: where it is, and the reports it received
    usize_bytes,      \* size_of::<usize>() of the build
    input,            \* export: the groups its iterator yields
    file,             \* the bytes of the inventory file on disk
    writer,           \* InventoryWriter: its BufWriter, export's count and position
    damaged,          \* whether the file was truncated or altered after writing
    reader,           \* InventoryReader: header, read_count, stream position
    yielded,          \* the items next() has returned as Some, in order
    ret,              \* what the last call of next() returned
    inventory,        \* dedup: the items its reader yields, Ok groups and Errs
    fs,               \* the file system: the inode each path names (0: no file)
    fs0,              \* the file system when dedup took up the current group
    at,               \* dedup: the item and the file of it that come next
    calls,            \* the system calls of dedup so far, in order
    reported,         \* the number of lines dedup wrote to stderr
    h_content,        \* checksum_file: the bytes of the file at path
    h_mode,           \* checksum_file: mode
    h_fault,          \* checksum_file: what open and read do during the call
    h_ret,            \* checksum_file: whether it was called, and what it returned
    e_ext,            \* ext_hash: path.extension() of its argument
    e_ret             \* ext_hash: what it returned (-1: not called)

engine_vars ==
    <<records, inode_set, set, hash2files, full_hash2files, status, item, last,
      conflict_count, filter_kind, part_hashed>>

walk_vars == <<tree, walk>>

channel_vars == <<status_channel, status_report_step, sent>>

thread_vars == <<scan_pc, consumer>>

inventory_vars == <<usize_bytes, input, file, writer, damaged, reader, yielded, ret>>

dedup_vars == <<inventory, fs, fs0, at, calls, reported>>

hash_vars == <<h_content, h_mode, h_fault, h_ret, e_ext, e_ret>>

vars ==
    <<engine_vars, walk_vars, channel_vars, thread_vars, inventory_vars,
      dedup_vars, hash_vars>>

\* What the calls of one part of the program leave alone
beside_engine == <<inventory_vars, dedup_vars, hash_vars>>
beside_inventory ==
    <<engine_vars, walk_vars, channel_vars, thread_vars, dedup_vars, hash_vars>>
beside_dedup ==
    <<engine_vars, walk_vars, channel_vars, thread_vars, inventory_vars, hash_vars>>
beside_hash ==
    <<engine_vars, walk_vars, channel_vars, thread_vars, inventory_vars, dedup_vars>>

----------------------------------------------------------------------------
(* Small helpers *)

Min(a, b) == IF a <= b THEN a ELSE b

Range(s) == {s[i] : i \in 1..Len(s)}

\* The empty map, and a map with one more (or one replaced) binding.
EmptyMap == <<>>

MapInsert(m, k, v) == [x \in (DOMAIN m) \cup {k} |-> IF x = k THEN v ELSE m[x]]

----------------------------------------------------------------------------
(* Bounds *)

\* Number of walker items the discover loop processes over the engine's life.
MaxScanned == 4

\* Number of groups handed to one export.
MaxGroups == 2

\* The greatest number of items in the inventory dedup reads
MaxItems == 2

\* The greatest number of files in the tree that discover walks twice
MaxTree == 3

\* The greatest number of files in the tree that scan walks
MaxWalked == 5

\* The greatest step the status channel is enabled with
MaxStep == 2

\* The greatest number of groups exported to the bincode inventory
MaxExported == 251

\* The greatest length of a file handed to checksum_file, the greatest N of
\* Part(N), and the greatest number of reads before a failing one
MaxLen == 4
MaxCompare == 4
MaxGoodReads == 2

\* The greatest length of an extension handed to ext_hash
MaxExtLen == 3

----------------------------------------------------------------------------
(* The hasher: src/src/hash.rs *)

\* const CHUNK_SIZE: usize = 1024 * 1024, scaled to 2 bytes.
CHUNK_SIZE == 2

\* usize::MAX, the compare size of CompareMode::Full.
USIZE_MAX == 2147483647

\* DEFAULT_COMPARE_SIZE = "1M": one scratch buffer.
DEFAULT_COMPARE_SIZE == 2

\* compare_size - hashed_size on usize, wrapping as the release build does.
WrappingSub(a, b) == IF a >= b THEN a - b ELSE (USIZE_MAX - (b - a)) + 1

\* The while loop of checksum_file.  pos is the file offset, buffer the scratch
\* buffer (never cleared between reads), fed the bytes given to the hasher so far.
\* A read of a regular file returns min(CHUNK_SIZE, remaining) bytes; after
\* good_reads reads the next one returns Err (never, when good_reads is
\* negative), and `while let Ok(len)` leaves the loop.  The result is the fed
\* bytes, with the notes whether a read failed and whether the subtraction of
\* line 38 went below zero in some iteration.
RECURSIVE ChecksumLoop(_, _, _, _, _, _, _)
ChecksumLoop(content, pos, buffer, hashed_size, compare_size, fed, good_reads) ==
    LET len == Min(CHUNK_SIZE, Len(content) - pos)
        buffer2 == [i \in 1..CHUNK_SIZE |->
                       IF i <= len THEN content[pos + i] ELSE buffer[i]]
        current_hash_len == Min(WrappingSub(compare_size, hashed_size), CHUNK_SIZE)
        fed2 == fed \o SubSeq(buffer2, 1, current_hash_len)
        hashed2 == hashed_size + len
        below_zero == hashed_size > compare_size
        rest == ChecksumLoop(content, pos + len, buffer2, hashed2, compare_size, fed2,
                             IF good_reads > 0 THEN good_reads - 1 ELSE good_reads)
    IN  IF good_reads = 0
        THEN [fed |-> fed, read_failed |-> TRUE, underflow |-> FALSE]
        ELSE IF len = 0
        THEN [fed |-> fed, read_failed |-> FALSE, underflow |-> FALSE]
        ELSE IF hashed2 = compare_size
        THEN [fed |-> fed2, read_failed |-> FALSE, underflow |-> below_zero]
        ELSE [rest EXCEPT !.underflow = @ \/ below_zero]

\* enum CompareMode
Full == [tag |-> "Full"]
Part(n) == [tag |-> "Part", size |-> n]

\* What the file system does to one call of checksum_file: whether the open
\* succeeds, and how many reads succeed before one fails.
NeverFails == -1
NoFault == [open_ok |-> TRUE, good_reads |-> NeverFails]

\* checksum_file(path, mode) under a fault: Err when the open fails (line 19),
\* else Ok with the hash, i.e. the fed bytes.  read_failed is no part of the
\* value returned: it notes that a read returned Err.  Nor is underflow: it
\* notes that compare_size - hashed_size went below zero, where a build with
\* overflow checks panics and one without wraps (WrappingSub).
checksum_file_under(content, mode, fault) ==
    LET compare_size == IF mode.tag = "Part" THEN mode.size ELSE USIZE_MAX
        loop == ChecksumLoop(content, 0, [i \in 1..CHUNK_SIZE |-> 0], 0,
                             compare_size, <<>>, fault.good_reads)
    IN  IF ~fault.open_ok THEN [ok |-> FALSE]
        ELSE [ok |-> TRUE, hash |-> loop.fed, read_failed |-> loop.read_failed,
              underflow |-> loop.underflow]

\* checksum_file(path, mode) on a file that opens and reads.  The result is the
\* hash, i.e. the fed bytes.
checksum_file(content, mode) == checksum_file_under(content, mode, NoFault).hash

----------------------------------------------------------------------------
(* Extension code: ext_hash *)

RECURSIVE BitOr(_, _)
BitOr(a, b) ==
    IF a = 0 THEN b
    ELSE IF b = 0 THEN a
    ELSE (IF (a % 2 = 1) \/ (b % 2 = 1) THEN 1 ELSE 0) + 2 * BitOr(a \div 2, b \div 2)

BitAnd64(x) == (x \div 64) % 2

\* result << 6 on u32: the six high bits fall off.
Shl6(result) == (result % 67108864) * 64

\* A step that leaves the case of a letter as it is.
ExtStepCased(result, x) ==
    IF BitAnd64(x) # 0
    THEN BitOr(Shl6(result), x)
    ELSE BitOr(Shl6(result), x % 16)

\* One step of the loop of ext_hash.
ExtStep(result, x) ==
    IF BitAnd64(x) # 0
    THEN BitOr(Shl6(result), BitOr(x, 32))
    ELSE BitOr(Shl6(result), x % 16)

RECURSIVE ExtFold(_, _, _)
ExtFold(ext, i, result) ==
    IF i > Len(ext) THEN result ELSE ExtFold(ext, i + 1, ExtStep(result, ext[i]))

\* ext is the extension's bytes, or <<>> when the path has none.
ext_hash(ext) == ExtFold(ext, 1, 0)

----------------------------------------------------------------------------
(* The files the walker can yield *)

\* Paths are numbered.  Every file is a regular, non-empty file (File::try_from
\* rejects the others before the engine sees them).
\*   1  a.pdf  "abx"  inode 1
\*   2  b.PDF  "abx"  inode 2     same content as 1
\*   3  l.pdf  "abx"  inode 1     hard link of 1
\*   4  c.pdf  "aby"  inode 3     shares the first CHUNK_SIZE bytes with 1
\*   5  e.pdf  "aby"  inode 4     same content as 4
\*   6  u.pdf  "ab"   inode 5     shorter file, same first bytes as 1
\*   7  v.pdf  "cd"   inode 6     same size as 6
\*   8  t.zip  "abx"  inode 7     same content as 1, other extension
\*   9  w.pdf  "abxb" inode 8     one byte longer than 1, the byte a stale buffer holds
\*  10  x.pdf  "cd"   inode 9     same content as 7
\*  11  y.zip  "aby"  inode 10    same key as 8, same content as 4
Paths == 1..11

PDF == <<112, 100, 102>>
PDF_UPPER == <<80, 68, 70>>
ZIP == <<122, 105, 112>>

FileAt ==
    <<
      [ino |-> 1, ext |-> PDF,       content |-> <<97, 98, 120>>],
      [ino |-> 2, ext |-> PDF_UPPER, content |-> <<97, 98, 120>>],
      [ino |-> 1, ext |-> PDF,       content |-> <<97, 98, 120>>],
      [ino |-> 3, ext |-> PDF,       content |-> <<97, 98, 121>>],
      [ino |-> 4, ext |-> PDF,       content |-> <<97, 98, 121>>],
      [ino |-> 5, ext |-> PDF,       content |-> <<97, 98>>],
      [ino |-> 6, ext |-> PDF,       content |-> <<99, 100>>],
      [ino |-> 7, ext |-> ZIP,       content |-> <<97, 98, 120>>],
      [ino |-> 8, ext |-> PDF,       content |-> <<97, 98, 120, 98>>],
      [ino |-> 9, ext |-> PDF,       content |-> <<99, 100>>],
      [ino |-> 10, ext |-> ZIP,      content |-> <<97, 98, 121>>]
    >>

\* file.metadata.size
SizeOf(p) == Len(FileAt[p].content)

\* ClassifyingKey(extension, size) of a file
ClassifyingKey == [p \in Paths |-> <<ext_hash(FileAt[p].ext), SizeOf(p)>>]

\* checksum_file(path, CompareMode::Part(compare_size)) when the file opens
PartHash == [p \in Paths |-> checksum_file(FileAt[p].content, Part(DEFAULT_COMPARE_SIZE))]

\* checksum_file(path, CompareMode::Full) when the file opens
FullHash == [p \in Paths |-> checksum_file(FileAt[p].content, Full)]

----------------------------------------------------------------------------
(* The duplicate engine: src/src/duplicate.rs *)

\* PreviousScanned
Index(i) == [tag |-> "Index", index |-> i]
Hash(hs) == [tag |-> "Hash", hashes |-> hs]

\* The engine's collections as one value, for the operators below.
Engine ==
    [records |-> records, inode_set |-> inode_set, set |-> set,
     hash2files |-> hash2files, full_hash2files |-> full_hash2files,
     duplicated |-> status.duplicated]

\* DEFAULT_EXT_FILTER: those of its 44 extensions that files of the model have
DEFAULT_EXT_FILTER == {PDF, ZIP}

\* self.filter.filter(&file): NoFilter passes every file; DefaultFilter passes
\* a file whose extension, as it is spelled, is in the list (b.PDF is not).
filter(p) ==
    \/ filter_kind = "NoFilter"
    \/ FileAt[p].ext \in DEFAULT_EXT_FILTER

\* An inode test that never finds the inode.
inode_unseen(E, ino) == FALSE

\* push, line 224: self.inode_set.contains(&ino)
inode_seen(E, ino) == ino \in E.inode_set

\* A transition that stores the index after that of the previous file.
InsertPrevious_next(h2f, previous_hash, i) == MapInsert(h2f, previous_hash, <<i + 1>>)

\* self.hash2files.insert(previous_hash, vec![i]) on the FirstSeen transition
InsertPrevious(h2f, previous_hash, i) == MapInsert(h2f, previous_hash, <<i>>)

\* push, lines 260-269: the slot holds a hash set now; enter hash and index.
RegisterHash(E, key, hash, index) ==
    LET E1 == [E EXCEPT !.set[key] = Hash(@.hashes \cup {hash})]
    IN  IF hash \in DOMAIN E1.hash2files
        THEN [E1 EXCEPT !.hash2files[hash] = Append(@, index),
                        !.duplicated = @ + 1]
        ELSE [E1 EXCEPT !.hash2files = MapInsert(@, hash, <<index>>)]

\* File::options().open(&path)? in checksum_file fails for at most one path
\* during a call of push or verify: broken is that path, or NoPath.  The paths
\* that can fail to open are those of Unreadable.
NoPath == 0
Unreadable == {4, 7}
Broken == {NoPath} \cup Unreadable

\* A push that appends the record without entering its inode in inode_set.
push_unmarked(E, p, broken) ==
    LET ino == FileAt[p].ino
        index == Len(E.records)
        key == ClassifyingKey[p]
        E1 == [E EXCEPT !.records = Append(@, p)]
    IN  IF inode_seen(E, ino) THEN E
        ELSE IF key \notin DOMAIN E1.set
        THEN [E1 EXCEPT !.set = MapInsert(@, key, Index(index))]
        ELSE IF p = broken THEN E1
        ELSE IF E1.set[key].tag = "Index"
        THEN IF E1.records[E1.set[key].index + 1] = broken THEN E1
             ELSE LET previous_index == E1.set[key].index
                      previous_hash == PartHash[E1.records[previous_index + 1]]
                      E2 == [E1 EXCEPT
                                !.set[key] = Hash({previous_hash}),
                                !.hash2files =
                                    InsertPrevious(@, previous_hash, previous_index)]
                  IN  RegisterHash(E2, key, PartHash[p], index)
        ELSE RegisterHash(E1, key, PartHash[p], index)

\* push(file, compare_size).  An Err return of push (the checksum_file call on
\* the pushed file at line 239, or on the slot's previous file at line 244)
\* leaves what was done before the `?`.
push(E, p, broken) ==
    LET ino == FileAt[p].ino
        index == Len(E.records)
        key == ClassifyingKey[p]
        E1 == [E EXCEPT !.inode_set = @ \cup {ino}, !.records = Append(@, p)]
    IN  IF inode_seen(E, ino) THEN E
        ELSE IF key \notin DOMAIN E1.set
        THEN [E1 EXCEPT !.set = MapInsert(@, key, Index(index))]
        ELSE IF p = broken THEN E1
        ELSE IF E1.set[key].tag = "Index"
        THEN IF E1.records[E1.set[key].index + 1] = broken THEN E1
             ELSE LET previous_index == E1.set[key].index
                      previous_hash == PartHash[E1.records[previous_index + 1]]
                      E2 == [E1 EXCEPT
                                !.set[key] = Hash({previous_hash}),
                                !.hash2files =
                                    InsertPrevious(@, previous_hash, previous_index)]
                  IN  RegisterHash(E2, key, PartHash[p], index)
        ELSE RegisterHash(E1, key, PartHash[p], index)

\* The paths push(p) calls checksum_file on: none when the inode is known or
\* the key is new (lines 226 and 274), else p (line 239) and, when the slot
\* holds an index, the slot's file (line 244).
push_opens(E, p) ==
    LET key == ClassifyingKey[p]
    IN  IF inode_seen(E, FileAt[p].ino) \/ key \notin DOMAIN E.set THEN {}
        ELSE IF E.set[key].tag = "Index"
        THEN {p, E.records[E.set[key].index + 1]}
        ELSE {p}

\* A push that hashes every file it is given.
push_hashes_eager(E, p, broken) == {p}

\* The paths push(p) has called checksum_file on when it returns: the call on p
\* at line 239 returns before the call of line 244 when it fails.
push_hashes(E, p, broken) == IF p = broken THEN {p} ELSE push_opens(E, p)

\* A test of the counter as it was before the iteration counted its file.
reports_before_count(scanned) ==
    status_channel = "Some" /\ (scanned - 1) % status_report_step = 0

\* discover, line 317: whether the iteration that brings status.scanned to
\* scanned sends a report.
reports(scanned) ==
    status_channel = "Some" /\ scanned % status_report_step = 0

\* discover, lines 320-323: the report, made of the status before the push
StatusReport(scanned, duplicated, p) ==
    [scanned |-> scanned, duplicated |-> duplicated, last_file |-> p]

\* One iteration of the loop of discover: the walker yields the file at path p.
\* The path that fails to open, if one does, is one that push opens.
discover_item(p, broken) ==
    /\ broken \in {NoPath} \cup (IF filter(p) THEN push_opens(Engine, p) ELSE {})
    /\ LET E == IF filter(p) THEN push(Engine, p, broken) ELSE Engine
       IN  /\ records' = E.records
           /\ inode_set' = E.inode_set
           /\ set' = E.set
           /\ hash2files' = E.hash2files
           /\ full_hash2files' = E.full_hash2files
           /\ status' = [scanned |-> status.scanned + 1, duplicated |-> E.duplicated]
    /\ part_hashed' =
          [q \in Paths |->
              IF filter(p) /\ q \in push_hashes(Engine, p, broken)
              THEN part_hashed[q] + 1
              ELSE part_hashed[q]]
    /\ sent' = IF reports(status.scanned + 1)
               THEN Append(sent, StatusReport(status.scanned + 1, status.duplicated, p))
               ELSE sent
    /\ item' = p
    /\ last' = "discover"
    /\ conflict_count' = 0
    /\ UNCHANGED <<filter_kind, status_channel, status_report_step, beside_engine>>

\* An iteration of discover on any file, the tree left open
DiscoverItem(p, broken) ==
    /\ status.scanned < MaxScanned
    /\ discover_item(p, broken)
    /\ UNCHANGED <<walk_vars, thread_vars>>

\* A filter that lets every list with a record through.
is_nonempty(v) == Len(v) > 0

\* result(), lines 293 and 299: the filter of both halves of the chain
is_yielded(v) == Len(v) > 1

\* result(): the groups, each a list of record indices (map_record_vec turns
\* the indices into records).  The order between groups is the HashMaps'.
result ==
    {hash2files[h] : h \in {k \in DOMAIN hash2files : is_yielded(hash2files[k])}}
    \cup
    {full_hash2files[h] :
        h \in {k \in DOMAIN full_hash2files : is_yielded(full_hash2files[k])}}

\* The orders in which a HashMap can hand out the keys in ks.
Orders(ks) == {o \in [1..Cardinality(ks) -> ks] : Range(o) = ks}

\* verify, lines 350-361: full_checksum_map of one list, as a map from each
\* full hash to the list's indices with that hash, in list order.
full_checksum_map(recs, vec) ==
    LET hashes == {FullHash[recs[vec[n] + 1]] : n \in 1..Len(vec)}
        Same(h) == LET Test(i) == FullHash[recs[i + 1]] = h IN SelectSeq(vec, Test)
    IN  [h \in hashes |-> Same(h)]

\* A split only from three full hashes on.
is_conflict_of_three(fmap) == Cardinality(DOMAIN fmap) > 2

\* verify, line 365: the entry is split when more than one full hash was found.
is_conflict(fmap) == Cardinality(DOMAIN fmap) > 1

\* A FullHashMap whose lists are replaced by the arrays of the local map.
replace_full(full, fmap) ==
    [h \in (DOMAIN full) \cup (DOMAIN fmap) |->
        IF h \in DOMAIN fmap THEN fmap[h] ELSE full[h]]

\* verify, lines 369-375: every array of the local map joins FullHashMap.
merge_full(full, fmap) ==
    [h \in (DOMAIN full) \cup (DOMAIN fmap) |->
        IF h \in DOMAIN fmap
        THEN IF h \in DOMAIN full THEN full[h] \o fmap[h] ELSE fmap[h]
        ELSE full[h]]

\* A split that leaves the list in PartialHashMap.
keep_entry(h2f, h) == h2f

\* verify, line 366: vec.clear()
clear_entry(h2f, h) == [h2f EXCEPT ![h] = <<>>]

\* A loop body that counts one conflict for each entry it splits.
verify_entry_counting_one(V, h, broken) ==
    LET vec == V.E.hash2files[h]
        fmap == full_checksum_map(V.E.records, vec)
    IN  IF V.err \/ Len(vec) = 1 THEN V
        ELSE IF \E i \in Range(vec) : V.E.records[i + 1] = broken
        THEN [V EXCEPT !.err = TRUE]
        ELSE IF is_conflict(fmap)
        THEN [V EXCEPT !.E.hash2files = clear_entry(@, h),
                       !.E.full_hash2files = merge_full(@, fmap),
                       !.conflict_count = @ + 1]
        ELSE V

\* The body of the loop of verify for the entry under partial hash h.  V is
\* [E, err, conflict_count]; broken is the path that fails to open, or NoPath.
verify_entry(V, h, broken) ==
    LET vec == V.E.hash2files[h]
        fmap == full_checksum_map(V.E.records, vec)
    IN  IF V.err \/ Len(vec) = 1 THEN V
        ELSE IF \E i \in Range(vec) : V.E.records[i + 1] = broken
        THEN [V EXCEPT !.err = TRUE]
        ELSE IF is_conflict(fmap)
        THEN [V EXCEPT !.E.hash2files = clear_entry(@, h),
                       !.E.full_hash2files = merge_full(@, fmap),
                       !.conflict_count = @ + Cardinality(DOMAIN fmap)]
        ELSE V

RECURSIVE verify_loop(_, _, _, _)
verify_loop(V, order, n, broken) ==
    IF n > Len(order) THEN V
    ELSE verify_loop(verify_entry(V, order[n], broken), order, n + 1, broken)

\* The partial hashes whose list verify reads files for.
Hashed == {h \in DOMAIN hash2files : Len(hash2files[h]) > 1}

\* The paths verify calls checksum_file on (line 354)
verify_opens == {records[i + 1] : i \in UNION {Range(hash2files[h]) : h \in Hashed}}

\* verify(): order is the iteration order of hash2files over the entries that
\* are hashed (the others are passed over without effect).  The path that
\* fails to open, if one does, is one that verify opens.
verify(order, broken) ==
    LET V == verify_loop([E |-> Engine, err |-> FALSE, conflict_count |-> 0],
                         order, 1, broken)
    IN  /\ broken \in {NoPath} \cup verify_opens
        /\ hash2files' = V.E.hash2files
        /\ full_hash2files' = V.E.full_hash2files
        /\ last' = IF V.err THEN "verify_err" ELSE "verify_ok"
        /\ conflict_count' = V.conflict_count
        /\ UNCHANGED <<records, inode_set, set, status, item, filter_kind, part_hashed,
                       channel_vars,
                       beside_engine>>

\* verify() on an engine whose tree is left open
Verify(order, broken) ==
    /\ verify(order, broken)
    /\ UNCHANGED <<walk_vars, thread_vars>>

\* Two calls of discover on one tree.  Each walks the whole tree; verify may
\* be called before, between and after them.
Trees == {t \in UNION {[1..n -> Paths] : n \in 1..MaxTree} :
            \A i, j \in 1..Len(t) : i # j => t[i] # t[j]}

InWalk == walk.pos <= Len(tree)

\* discover, lines 312-336: the next item of the walker
WalkItem(broken) ==
    /\ walk.call <= 2
    /\ InWalk
    /\ discover_item(tree[walk.pos], broken)
    /\ walk' = [walk EXCEPT !.pos = @ + 1]
    /\ UNCHANGED <<tree, thread_vars>>

\* discover, line 337: the walker is used up and discover returns Ok(()).
ReturnFromDiscover ==
    /\ walk.call <= 2
    /\ ~InWalk
    /\ walk' = [call |-> walk.call + 1, pos |-> 1]
    /\ UNCHANGED <<tree, engine_vars, channel_vars, thread_vars, beside_engine>>

\* verify(), called while no discover is at work
VerifyBetween(order, broken) ==
    /\ walk.pos = 1
    /\ verify(order, broken)
    /\ UNCHANGED <<walk_vars, thread_vars>>

WalkIdle ==
    /\ tree = <<>>
    /\ walk = [call |-> 1, pos |-> 1]

\* Duplicate::new (no channel, step usize::MAX) and custom_filter (no channel,
\* step 0).  No scan is running.
ChannelIdle(kind) ==
    /\ status_channel = "None"
    /\ status_report_step = IF kind = "NoFilter" THEN USIZE_MAX ELSE 0
    /\ sent = <<>>
    /\ scan_pc = "none"
    /\ consumer = [pc |-> "none", received |-> <<>>]

\* scan (main.rs): the main thread builds the engine with DefaultFilter,
\* enables the status channel, spawns the consumer thread without keeping its
\* handle, then runs discover, verify when asked, and report.  When scan
\* returns (or unwinds from a failed expect) the engine and its Sender are
\* dropped; main then returns and the process exits, which ends every thread.

\* enable_status_channel(30), the step scaled down
STATUS_REPORT_STEP == 2

\* The trees scan is run on: the first n files, in path order
ScanTrees == {[i \in 1..n |-> i] : n \in 0..MaxWalked}

\* The channel's queue: the reports sent and not yet received
Queue == SubSeq(sent, Len(consumer.received) + 1, Len(sent))

\* scan: an iteration of the loop of discover
ScanItem(broken) ==
    /\ scan_pc = "discover"
    /\ InWalk
    /\ discover_item(tree[walk.pos], broken)
    /\ walk' = [walk EXCEPT !.pos = @ + 1]
    /\ UNCHANGED <<tree, thread_vars>>

\* scan: discover returns Ok(()); arg.verify decides whether verify runs.
ScanDiscovered(arg_verify) ==
    /\ scan_pc = "discover"
    /\ ~InWalk
    /\ scan_pc' = IF arg_verify THEN "verify" ELSE "report"
    /\ UNCHANGED <<engine_vars, walk_vars, channel_vars, consumer, beside_engine>>

\* scan: duplicate.verify().expect(..), which panics when verify returns Err
ScanVerify(order, broken) ==
    /\ scan_pc = "verify"
    /\ verify(order, broken)
    /\ scan_pc' = IF last' = "verify_err" THEN "panic" ELSE "report"
    /\ UNCHANGED <<walk_vars, consumer>>

\* scan: report(..), then scan returns, or the panic unwinds scan: either way
\* duplicate is dropped, and with it the only Sender.
ScanReturn ==
    /\ scan_pc \in {"report", "panic"}
    /\ scan_pc' = "returned"
    /\ status_channel' = "Dropped"
    /\ UNCHANGED <<engine_vars, walk_vars, status_report_step, sent, consumer,
                   beside_engine>>

\* main: println!("Done.") and return (or the panic ends the main thread): the
\* process exits, and a consumer thread still running ends with it.
MainExit ==
    /\ scan_pc = "returned"
    /\ scan_pc' = "exited"
    /\ consumer' = IF consumer.pc = "recv" THEN [consumer EXCEPT !.pc = "killed"]
                   ELSE consumer
    /\ UNCHANGED <<engine_vars, walk_vars, channel_vars, beside_engine>>

\* The consumer thread, while let Ok(status) = rx.recv(): recv returns the
\* oldest queued report; with an empty queue it returns Err once the Sender is
\* dropped, which ends the loop, and blocks while the Sender lives.
Recv ==
    /\ consumer.pc = "recv"
    /\ IF Queue # <<>>
       THEN consumer' = [consumer EXCEPT !.received = Append(@, Head(Queue))]
       ELSE /\ status_channel = "Dropped"
            /\ consumer' = [consumer EXCEPT !.pc = "done"]
    /\ UNCHANGED <<engine_vars, walk_vars, channel_vars, scan_pc, beside_engine>>

\* Duplicate::new, and custom_filter when kind is DefaultFilter
EngineNew(kind) ==
    /\ records = <<>>
    /\ inode_set = {}
    /\ set = EmptyMap
    /\ hash2files = EmptyMap
    /\ full_hash2files = EmptyMap
    /\ status = [scanned |-> 0, duplicated |-> 0]
    /\ item = 0
    /\ last = "new"
    /\ conflict_count = 0
    /\ filter_kind = kind
    /\ part_hashed = [q \in Paths |-> 0]

\* The consumer thread ends before the channel closes: print_progress panics
\* (width - count.len() on a narrow terminal, flush().unwrap() on a closed
\* stdout), and the Receiver is dropped with the thread.
ReceiverDropped ==
    /\ consumer.pc = "recv"
    /\ scan_pc # "exited"
    /\ consumer' = [consumer EXCEPT !.pc = "dropped"]
    /\ UNCHANGED <<engine_vars, walk_vars, channel_vars, scan_pc, beside_engine>>

\* custom_filter, enable_status_channel(step) and the spawn of the consumer
EnabledWith(step) ==
    /\ EngineNew("DefaultFilter")
    /\ tree \in ScanTrees
    /\ walk = [call |-> 1, pos |-> 1]
    /\ status_channel = "Some"
    /\ status_report_step = step
    /\ sent = <<>>
    /\ scan_pc = "discover"
    /\ consumer = [pc |-> "recv", received |-> <<>>]

\* scan up to the spawn of the consumer thread
ScanInit == EnabledWith(STATUS_REPORT_STEP)

EngineInit == WalkIdle /\ ChannelIdle("NoFilter") /\ EngineNew("NoFilter")

----------------------------------------------------------------------------
(* The inventory codec: src/d2fn/src/inventory.rs *)

\* pub const CURRENT_VERSION: u8 = 0x01
CURRENT_VERSION == 1

\* The header on disk: write_u8, write_u8, write_u32 (1 + 1 + 4 bytes).
HEADER_LEN == 6

\* vec![0u8; 1024 * 1024], the encode and decode buffer, scaled to 20 bytes.
BUFFER_LEN == 20

\* The capacity of BufWriter::new (8 KiB in std), scaled to 12 bytes: the header
\* and a small group fit, the largest group the encode buffer takes does not.
WRITER_CAPACITY == 12

\* A length no slice of this model reaches.
HUGE == 256 * 256

\* A u64 as its 8 little-endian bytes.
Pad8(b) == [i \in 1..8 |-> IF i <= Len(b) THEN b[i] ELSE 0]
ZeroFrom(d, k) == \A i \in k..8 : d[i] = 0

\* A small usize (below 65536) as a u64, and back; lengths that do not fit the
\* model's numbers are all HUGE.
ToU64(n) == Pad8(<<n % 256, n \div 256>>)
ToLen(d) == IF ZeroFrom(d, 3) THEN d[1] + 256 * d[2] ELSE HUGE

\* The 4 bytes of n below 65536 in big-endian order.
write_u32_be(n) == <<0, 0, n \div 256, n % 256>>

\* write_u32::<LittleEndian>(n), for n below 65536
write_u32_le(n) == <<n % 256, n \div 256, 0, 0>>

\* read_u32::<LittleEndian>() of 4 bytes; values from 65536 on are all HUGE.
read_u32_le(b) == IF b[3] = 0 /\ b[4] = 0 THEN b[1] + 256 * b[2] ELSE HUGE

\* bincode, config::standard(): the variable-length encoding of an unsigned
\* integer.
varint_encode(d) ==
    IF ZeroFrom(d, 2) /\ d[1] < 251 THEN <<d[1]>>
    ELSE IF ZeroFrom(d, 3) THEN <<251>> \o SubSeq(d, 1, 2)
    ELSE IF ZeroFrom(d, 5) THEN <<252>> \o SubSeq(d, 1, 4)
    ELSE <<253>> \o d

\* bincode: decoding of a u64 at position pos of slice b.
DecodeFail == [ok |-> FALSE]

varint_decode(b, pos) ==
    LET Take(n) == IF pos + n > Len(b) THEN DecodeFail
                   ELSE [ok |-> TRUE, val |-> Pad8(SubSeq(b, pos + 1, pos + n)),
                         pos |-> pos + n + 1]
    IN  IF pos > Len(b) THEN DecodeFail
        ELSE IF b[pos] < 251 THEN [ok |-> TRUE, val |-> Pad8(<<b[pos]>>), pos |-> pos + 1]
        ELSE IF b[pos] = 251 THEN Take(2)
        ELSE IF b[pos] = 252 THEN Take(4)
        ELSE IF b[pos] = 253 THEN Take(8)
        ELSE DecodeFail

\* A path is a D2fnPath: the bytes of the OsStr, any byte allowed.
\* #[derive(Encode)] DuplicateFile { ino: u64, path: D2fnPath { path: Vec<u8> } }
encode_file(f) ==
    varint_encode(f.ino) \o varint_encode(ToU64(Len(f.path))) \o f.path

RECURSIVE encode_files(_, _)
encode_files(files, n) ==
    IF n > Len(files) THEN <<>>
    ELSE encode_file(files[n]) \o encode_files(files, n + 1)

\* #[derive(Encode)] DuplicateGroup { files: Vec<DuplicateFile> }
encode_group(g) == varint_encode(ToU64(Len(g))) \o encode_files(g, 1)

\* #[derive(Decode)]: n more files from position pos of slice b
RECURSIVE decode_files(_, _, _, _)
decode_files(b, pos, n, acc) ==
    IF n = 0 THEN [ok |-> TRUE, files |-> acc]
    ELSE LET ino == varint_decode(b, pos)
             len == IF ino.ok THEN varint_decode(b, ino.pos) ELSE DecodeFail
             L == IF len.ok THEN ToLen(len.val) ELSE 0
         IN  IF ~ino.ok \/ ~len.ok THEN DecodeFail
             ELSE IF len.pos + L - 1 > Len(b) THEN DecodeFail
             ELSE decode_files(b, len.pos + L, n - 1,
                      Append(acc, [ino |-> ino.val,
                                   path |-> SubSeq(b, len.pos, len.pos + L - 1)]))

\* bincode::decode_from_slice::<DuplicateGroup>: bytes after the group are ignored
decode_group(b) ==
    LET n == varint_decode(b, 1)
    IN  IF ~n.ok THEN DecodeFail ELSE decode_files(b, n.pos, ToLen(n.val), <<>>)

----------------------------------------------------------------------------
(* The writer *)

\* A placeholder that announces a group.
Header_one == [version |-> 0, offset |-> 0, count |-> 1]

\* #[derive(Default)] Header
Header_default == [version |-> 0, offset |-> 0, count |-> 0]

\* export, lines 150-154
new_header(count) ==
    [version |-> CURRENT_VERSION, offset |-> (2 + usize_bytes) % 256, count |-> count]

\* A File::write_all at offset pos: the bytes replace what is there or extend
\* the file.
Overwrite(f, pos, data) ==
    [i \in 1..(IF pos + Len(data) > Len(f) THEN pos + Len(data) ELSE Len(f)) |->
        IF i > pos /\ i <= pos + Len(data) THEN data[i - pos] ELSE f[i]]

\* The BufWriter<File> with the file below it: W is [buf, pos, file, err], err
\* telling that a call has returned Err.  fail tells whether the next write to
\* the file fails.
inner_write(W, data, fail) ==
    IF fail THEN [W EXCEPT !.err = TRUE]
    ELSE [W EXCEPT !.file = Overwrite(@, W.pos, data), !.pos = @ + Len(data)]

\* BufWriter::flush_buf
flush_buf(W, fail) ==
    IF W.err \/ W.buf = <<>> THEN W
    ELSE [inner_write(W, W.buf, fail) EXCEPT !.buf = IF fail THEN @ ELSE <<>>]

\* BufWriter::write_all (and write_all_cold)
write_all(W, data, fail) ==
    LET spare == WRITER_CAPACITY - Len(W.buf)
        W1 == IF Len(data) > spare THEN flush_buf(W, fail) ELSE W
    IN  IF W.err THEN W
        ELSE IF Len(data) < spare THEN [W EXCEPT !.buf = @ \o data]
        ELSE IF W1.err THEN W1
        ELSE IF Len(data) >= WRITER_CAPACITY THEN inner_write(W1, data, fail)
        ELSE [W1 EXCEPT !.buf = @ \o data]

\* InventoryWriter::write_header
write_header(W, header, fail) ==
    write_all(write_all(write_all(W, <<header.version>>, fail),
                        <<header.offset>>, fail),
              write_u32_le(header.count), fail)

\* InventoryWriter::encode: Err when the group does not fit the buffer
encode(W, group, fail) ==
    LET bytes == encode_group(group)
    IN  IF Len(bytes) > BUFFER_LEN THEN [W EXCEPT !.err = TRUE]
        ELSE write_all(write_all(W, write_u32_le(Len(bytes)), fail), bytes, fail)

\* The writer's BufWriter and file as one value
TheWriter == [buf |-> writer.buf, pos |-> writer.pos, file |-> file, err |-> FALSE]

\* InventoryWriter::create: File::create empties the file; the placeholder header
\* goes to the BufWriter.
Create ==
    /\ writer.pc = "none"
    /\ LET W == write_header([buf |-> <<>>, pos |-> 0, file |-> <<>>, err |-> FALSE],
                             Header_default, FALSE)
       IN  /\ file' = W.file
           /\ writer' = [pc |-> "exporting", buf |-> W.buf, pos |-> W.pos, count |-> 0]
    /\ UNCHANGED <<beside_inventory, usize_bytes, input, damaged, reader, yielded, ret>>

\* export: one iteration of its loop
ExportGroup(fail) ==
    /\ writer.pc = "exporting"
    /\ writer.count < Len(input)
    /\ LET W == encode(TheWriter, input[writer.count + 1], fail)
       IN  /\ file' = W.file
           /\ writer' = [pc |-> IF W.err THEN "export_err" ELSE "exporting",
                         buf |-> W.buf, pos |-> W.pos, count |-> writer.count + 1]
    /\ UNCHANGED <<beside_inventory, usize_bytes, input, damaged, reader, yielded, ret>>

\* export, lines 150-157: the iterator is exhausted; seek to 0 and write the header
ExportFinish(fail) ==
    /\ writer.pc = "exporting"
    /\ writer.count = Len(input)
    /\ LET W1 == flush_buf(TheWriter, fail)
           W2 == write_header([W1 EXCEPT !.pos = 0], new_header(writer.count), fail)
           W == IF W1.err THEN W1 ELSE W2
       IN  /\ file' = W.file
           /\ writer' = [pc |-> IF W.err THEN "export_err" ELSE "export_ok",
                         buf |-> W.buf, pos |-> W.pos, count |-> writer.count]
    /\ UNCHANGED <<beside_inventory, usize_bytes, input, damaged, reader, yielded, ret>>

\* The writer goes out of scope after export has returned: BufWriter's drop
\* flushes and ignores a failure.
Drop(fail) ==
    /\ writer.pc \in {"export_ok", "export_err"}
    /\ LET W == flush_buf(TheWriter, fail)
       IN  /\ file' = W.file
           /\ writer' = [pc |-> IF writer.pc = "export_ok" /\ ~W.err
                                THEN "closed_ok" ELSE "closed_err",
                         buf |-> <<>>, pos |-> W.pos, count |-> writer.count]
    /\ UNCHANGED <<beside_inventory, usize_bytes, input, damaged, reader, yielded, ret>>

\* The process is abandoned: what the BufWriter holds is lost.
Abandon ==
    /\ writer.pc \in {"exporting", "export_ok", "export_err"}
    /\ writer' = [writer EXCEPT !.pc = "abandoned", !.buf = <<>>]
    /\ UNCHANGED <<beside_inventory, usize_bytes, input, file, damaged, reader, yielded, ret>>

WriterGone == writer.pc \in {"closed_ok", "closed_err", "abandoned"}

\* Bytes a damaged file can hold in place of the written ones
DamageBytes == {0, 255}

\* The file is cut short, or a byte of its body is altered, before it is read.
Damage ==
    /\ WriterGone
    /\ reader.pc = "none"
    /\ ~damaged
    /\ \/ \E n \in 0..(Len(file) - 1) : file' = SubSeq(file, 1, n)
       \/ \E k \in (HEADER_LEN + 1)..Len(file), b \in DamageBytes :
             /\ file[k] # b
             /\ file' = [file EXCEPT ![k] = b]
    /\ damaged' = TRUE
    /\ UNCHANGED <<beside_inventory, usize_bytes, input, writer, reader, yielded, ret>>

----------------------------------------------------------------------------
(* The reader *)

\* InventoryReader::read_header on the first HEADER_LEN bytes
read_header(b) ==
    [version |-> b[1], offset |-> b[2], count |-> read_u32_le(SubSeq(b, 3, 6))]

\* InventoryReader::open
Open ==
    /\ WriterGone
    /\ reader.pc = "none"
    /\ reader' = IF Len(file) < HEADER_LEN
                 THEN [reader EXCEPT !.pc = "open_failed"]
                 ELSE [pc |-> "open", header |-> read_header(file),
                       pos |-> HEADER_LEN, read_count |-> 0]
    /\ UNCHANGED <<beside_inventory, usize_bytes, input, file, writer, damaged, yielded, ret>>

\* InventoryReader::decode at stream offset pos: the item, or a panic when the
\* size exceeds the buffer (buf[..size]); a failed read leaves the stream at
\* the end of the file.
decode(f, pos) ==
    LET have == Len(f) - pos
        size == read_u32_le(SubSeq(f, pos + 1, pos + 4))
        data == decode_group(SubSeq(f, pos + 5, pos + 4 + size))
    IN  IF have < 4 THEN [panic |-> FALSE, item |-> DecodeFail, pos |-> Len(f)]
        ELSE IF size > BUFFER_LEN THEN [panic |-> TRUE, item |-> DecodeFail, pos |-> pos + 4]
        ELSE IF have - 4 < size THEN [panic |-> FALSE, item |-> DecodeFail, pos |-> Len(f)]
        ELSE [panic |-> FALSE, item |-> data, pos |-> pos + 4 + size]

\* The test of next with <= for <.
has_next_le(read_count, count) == read_count <= count

\* Iterator::next, line 107
has_next(read_count, count) == read_count < count

\* Iterator::next for InventoryReader
NextItem ==
    /\ reader.pc = "open"
    /\ IF has_next(reader.read_count, reader.header.count)
       THEN LET d == decode(file, reader.pos)
            IN  IF d.panic
                THEN /\ reader' = [reader EXCEPT !.pc = "panicked", !.pos = d.pos]
                     /\ UNCHANGED <<yielded, ret>>
                ELSE /\ reader' = [reader EXCEPT !.pos = d.pos, !.read_count = @ + 1]
                     /\ yielded' = Append(yielded, d.item)
                     /\ ret' = "Some"
       ELSE /\ ret' = "None"
            /\ UNCHANGED <<reader, yielded>>
    /\ UNCHANGED <<beside_inventory, usize_bytes, input, file, writer, damaged>>

----------------------------------------------------------------------------
(* The groups handed to export *)

\* u64 inodes that take each of the four variable-length forms
Ino1 == ToU64(1)
Ino251 == ToU64(251)
Ino65536 == <<0, 0, 1, 0, 0, 0, 0, 0>>
InoBig == <<0, 0, 0, 0, 1, 0, 0, 0>>

\* Two files, one path with a byte that is no UTF-8 and one that is a NUL;
\* one file with a NUL inside its path; a file with an empty path; a group too
\* large for the encode buffer; a group of no file.
GroupSamples ==
    { << [ino |-> Ino1, path |-> <<47, 255>>], [ino |-> Ino251, path |-> <<0>>] >>,
      << [ino |-> InoBig, path |-> <<254, 0, 97>>] >>,
      << [ino |-> Ino65536, path |-> <<>>] >>,
      << [ino |-> InoBig, path |-> <<97>>], [ino |-> InoBig, path |-> <<98>>] >>,
      << >> }

Inputs == UNION {[1..n -> GroupSamples] : n \in 0..MaxGroups}

InventoryIdle ==
    /\ usize_bytes = 8
    /\ input = <<>>
    /\ file = <<>>
    /\ writer = [pc |-> "none", buf |-> <<>>, pos |-> 0, count |-> 0]
    /\ damaged = FALSE
    /\ reader = [pc |-> "none"]
    /\ yielded = <<>>
    /\ ret = "none"

InventoryInit ==
    /\ usize_bytes \in {4, 8}
    /\ input \in Inputs
    /\ file = <<>>
    /\ writer = [pc |-> "none", buf |-> <<>>, pos |-> 0, count |-> 0]
    /\ damaged = FALSE
    /\ reader = [pc |-> "none"]
    /\ yielded = <<>>
    /\ ret = "none"

----------------------------------------------------------------------------
(* The inventory of src/inventory.rs, whose header bincode encodes *)

\* #[derive(Encode)] Header { version: u8, offset: u8, count: usize }: bincode
\* writes a u8 as it is and a usize in the variable-length form.
encode_header(h) == <<h.version, h.offset>> \o varint_encode(ToU64(h.count))

\* export, lines 115-119
bincode_new_header(count) ==
    [version |-> CURRENT_VERSION, offset |-> (4 + usize_bytes) % 256, count |-> count]

\* The bytes the loop of export writes for the groups from the lo-th to the
\* hi-th, one after the other (computed by halves)
RECURSIVE encode_groups(_, _, _)
encode_groups(groups, lo, hi) ==
    IF lo > hi THEN <<>>
    ELSE IF lo = hi THEN encode_group(groups[lo])
    ELSE LET mid == (lo + hi) \div 2
         IN  encode_groups(groups, lo, mid) \o encode_groups(groups, mid + 1, hi)

\* bincode::decode_from_reader of an unsigned integer at stream position pos:
\* the value and the position after it.  A failed decode has read the marker
\* byte when the marker is none of this width, and else the rest of the file.
read_varint(b, pos) ==
    LET r == varint_decode(b, pos)
    IN  IF r.ok THEN r
        ELSE [ok |-> FALSE,
              pos |-> IF pos <= Len(b) /\ b[pos] >= 254 THEN pos + 1 ELSE Len(b) + 1]

\* #[derive(Decode)] from the stream: n more files from position pos
RECURSIVE read_files(_, _, _, _)
read_files(b, pos, n, acc) ==
    IF n = 0 THEN [ok |-> TRUE, files |-> acc, pos |-> pos]
    ELSE LET ino == read_varint(b, pos)
             len == IF ino.ok THEN read_varint(b, ino.pos) ELSE ino
             L == IF len.ok THEN ToLen(len.val) ELSE 0
         IN  IF ~len.ok THEN [ok |-> FALSE, pos |-> len.pos]
             ELSE IF len.pos + L - 1 > Len(b) THEN [ok |-> FALSE, pos |-> Len(b) + 1]
             ELSE read_files(b, len.pos + L, n - 1,
                      Append(acc, [ino |-> ino.val,
                                   path |-> SubSeq(b, len.pos, len.pos + L - 1)]))

\* bincode::decode_from_reader::<DuplicateGroup> at stream position pos
read_group(b, pos) ==
    LET n == read_varint(b, pos)
    IN  IF ~n.ok THEN n ELSE read_files(b, n.pos, ToLen(n.val), <<>>)

\* bincode::decode_from_reader::<Header>
read_bincode_header(b) ==
    LET count == read_varint(b, 3)
    IN  IF Len(b) < 2 \/ ~count.ok THEN DecodeFail
        ELSE [ok |-> TRUE, pos |-> count.pos,
              header |-> [version |-> b[1], offset |-> b[2], count |-> ToLen(count.val)]]

\* InventoryWriter::create: File::create empties the file, and the encoding of
\* Header::default() is written.
BincodeCreate ==
    /\ writer.pc = "none"
    /\ file' = encode_header(Header_default)
    /\ writer' = [writer EXCEPT !.pc = "exporting"]
    /\ UNCHANGED <<beside_inventory, usize_bytes, input, damaged, reader, yielded, ret>>

\* InventoryWriter::export, and the drop of the writer that follows in
\* generate_inventory: every group is written after the placeholder, then the
\* stream is sought to 0 and the header with the count is written over what
\* is there.
BincodeExport ==
    /\ writer.pc = "exporting"
    /\ file' = Overwrite(file \o encode_groups(input, 1, Len(input)), 0,
                         encode_header(bincode_new_header(Len(input))))
    /\ writer' = [writer EXCEPT !.pc = "closed_ok", !.count = Len(input)]
    /\ UNCHANGED <<beside_inventory, usize_bytes, input, damaged, reader, yielded, ret>>

\* InventoryReader::open
BincodeOpen ==
    /\ writer.pc = "closed_ok"
    /\ reader.pc = "none"
    /\ LET h == read_bincode_header(file)
       IN  reader' = IF h.ok
                     THEN [pc |-> "open", header |-> h.header, pos |-> h.pos,
                           read_count |-> 0]
                     ELSE [reader EXCEPT !.pc = "open_failed"]
    /\ UNCHANGED <<beside_inventory, usize_bytes, input, file, writer, damaged, yielded, ret>>

\* Iterator::next for InventoryReader
BincodeNext ==
    /\ reader.pc = "open"
    /\ IF has_next(reader.read_count, reader.header.count)
       THEN LET d == read_group(file, reader.pos)
            IN  /\ reader' = [reader EXCEPT !.pos = d.pos, !.read_count = @ + 1]
                /\ yielded' = Append(yielded,
                                     IF d.ok THEN [ok |-> TRUE, files |-> d.files]
                                     ELSE DecodeFail)
                /\ ret' = "Some"
       ELSE /\ ret' = "None"
            /\ UNCHANGED <<reader, yielded>>
    /\ UNCHANGED <<beside_inventory, usize_bytes, input, file, writer, damaged>>

\* The numbers of groups handed to export: few, and as many as take the count
\* past the one-byte form
ExportCounts == {0, 1, 2, MaxExported - 1, MaxExported}

\* generate_inventory hands export the groups of result(): n groups, all alike
BincodeInit ==
    /\ usize_bytes \in {4, 8}
    /\ \E n \in ExportCounts, g \in GroupSamples : input = [k \in 1..n |-> g]
    /\ file = <<>>
    /\ writer = [pc |-> "none", buf |-> <<>>, pos |-> 0, count |-> 0]
    /\ damaged = FALSE
    /\ reader = [pc |-> "none"]
    /\ yielded = <<>>
    /\ ret = "none"

----------------------------------------------------------------------------
(* The link applier: dedup of main.rs *)

\* The directory entries of the model, and the inodes files have.  A path
\* stands for the directory entry it names.
DPaths == 1..3
NoFile == 0
Inodes == 1..2

\* A DuplicateFile of an inventory whose path names entry p.  Its ino is what
\* the scan recorded; dedup only prints it.
DFile(p) == [ino |-> p, path |-> p]

\* The items the reader hands to dedup: groups as a scan writes them, with
\* two or three files, a group whose files are links of one another, groups
\* as any other writer of the format may leave them (one path twice, one
\* file, none), and an item that failed to decode.
ItemSamples ==
    { [ok |-> TRUE, files |-> <<DFile(1), DFile(2)>>],
      [ok |-> TRUE, files |-> <<DFile(1), DFile(2), DFile(3)>>],
      [ok |-> TRUE, files |-> <<DFile(2), DFile(1)>>],
      [ok |-> TRUE, files |-> <<DFile(1), DFile(1)>>],
      [ok |-> TRUE, files |-> <<DFile(3)>>],
      [ok |-> TRUE, files |-> <<>>],
      [ok |-> FALSE] }

Inventories == UNION {[1..n -> ItemSamples] : n \in 0..MaxItems}

\* std::fs::remove_file(p): [ok, fs].  It fails when no file is at p, or when
\* the system refuses (fail).
remove_file(f, p, fail) ==
    IF f[p] = NoFile \/ fail THEN [ok |-> FALSE, fs |-> f]
    ELSE [ok |-> TRUE, fs |-> [f EXCEPT ![p] = NoFile]]

\* std::fs::hard_link(original, link): [ok, fs].  It fails when original is
\* missing, when link exists, or when the system refuses (fail).
hard_link(f, original, link, fail) ==
    IF f[original] = NoFile \/ f[link] # NoFile \/ fail THEN [ok |-> FALSE, fs |-> f]
    ELSE [ok |-> TRUE, fs |-> [f EXCEPT ![link] = f[original]]]

\* dedup, line 365: the loop has an item left
HasItem == at.g <= Len(inventory)

\* dedup, lines 375 and 377: source and destination
Source == inventory[at.g].files[1].path
Destination == inventory[at.g].files[at.k].path

\* The loop of line 376 stands at a destination of an Ok group.
AtDestination ==
    /\ HasItem
    /\ inventory[at.g].ok
    /\ at.k \in 2..Len(inventory[at.g].files)

\* dedup, lines 365-374: the reader yields the next item.  An Err is reported
\* and passed over; a group with no file is passed over (the slice pattern
\* does not match).
ReadItem ==
    /\ HasItem
    /\ at.k = 1
    /\ LET it == inventory[at.g]
       IN  IF ~it.ok
           THEN /\ reported' = reported + 1
                /\ at' = [g |-> at.g + 1, k |-> 1]
                /\ UNCHANGED fs0
           ELSE IF Len(it.files) = 0
           THEN /\ at' = [g |-> at.g + 1, k |-> 1]
                /\ UNCHANGED <<reported, fs0>>
           ELSE /\ at' = [at EXCEPT !.k = 2]
                /\ fs0' = fs
                /\ UNCHANGED reported
    /\ UNCHANGED <<inventory, fs, calls, beside_dedup>>

\* dedup, lines 377-382: one destination.  remove_file, and then hard_link if
\* remove_file succeeded; an Err of either is reported.
LinkDestination(rm_fail, ln_fail) ==
    /\ AtDestination
    /\ LET rm == remove_file(fs, Destination, rm_fail)
           ln == hard_link(rm.fs, Source, Destination, ln_fail)
           rm_call == [g |-> at.g, op |-> "remove_file", path |-> Destination,
                       ok |-> rm.ok]
           ln_call == [g |-> at.g, op |-> "hard_link", path |-> Destination,
                       ok |-> ln.ok]
       IN  IF rm.ok
           THEN /\ fs' = ln.fs
                /\ calls' = calls \o <<rm_call, ln_call>>
                /\ reported' = IF ln.ok THEN reported ELSE reported + 1
           ELSE /\ fs' = rm.fs
                /\ calls' = Append(calls, rm_call)
                /\ reported' = reported + 1
    /\ at' = [at EXCEPT !.k = @ + 1]
    /\ UNCHANGED <<inventory, fs0, beside_dedup>>

\* dedup, line 376: the destinations of the group are used up.
FinishGroup ==
    /\ HasItem
    /\ inventory[at.g].ok
    /\ at.k > Len(inventory[at.g].files)
    /\ at.k >= 2
    /\ at' = [g |-> at.g + 1, k |-> 1]
    /\ UNCHANGED <<inventory, fs, fs0, calls, reported, beside_dedup>>

DedupIdle ==
    /\ inventory = <<>>
    /\ fs = [p \in DPaths |-> NoFile]
    /\ fs0 = fs
    /\ at = [g |-> 1, k |-> 1]
    /\ calls = <<>>
    /\ reported = 0

DedupInit ==
    /\ inventory \in Inventories
    /\ fs \in [DPaths -> {NoFile} \cup Inodes]
    /\ fs0 = fs
    /\ at = [g |-> 1, k |-> 1]
    /\ calls = <<>>
    /\ reported = 0

----------------------------------------------------------------------------
(* Calls of checksum_file and of ext_hash on their own *)

\* The files: every byte string of up to MaxLen bytes over two byte values
Contents == UNION {[1..n -> {97, 98}] : n \in 0..MaxLen}

Modes == {Full} \cup {Part(n) : n \in 1..MaxCompare}

Faults == [open_ok : BOOLEAN, good_reads : NeverFails..MaxGoodReads]

\* One call of checksum_file
NotCalled == [called |-> FALSE]

Checksum ==
    /\ h_ret = NotCalled
    /\ h_ret' = [called |-> TRUE,
                 ret |-> checksum_file_under(h_content, h_mode, h_fault)]
    /\ UNCHANGED <<h_content, h_mode, h_fault, e_ext, e_ret, beside_hash>>

\* path.extension(): None, or the bytes after the last dot; letters of both
\* cases and digits
NoExtension == [some |-> FALSE]
Extensions ==
    {NoExtension} \cup
    {[some |-> TRUE, bytes |-> b] :
        b \in UNION {[1..n -> {97, 65, 122, 90, 55}] : n \in 0..MaxExtLen}}

\* ext_hash(path), lines 96-113: 0 without extension
ext_hash_of(e) == IF e.some THEN ext_hash(e.bytes) ELSE 0

\* One call of ext_hash
ExtHash ==
    /\ e_ret = -1
    /\ e_ret' = ext_hash_of(e_ext)
    /\ UNCHANGED <<h_content, h_mode, h_fault, h_ret, e_ext, beside_hash>>

HashIdle ==
    /\ h_content = <<>>
    /\ h_mode = Full
    /\ h_fault = NoFault
    /\ h_ret = NotCalled
    /\ e_ext = NoExtension
    /\ e_ret = -1

----------------------------------------------------------------------------
(* Specifications *)

\* The engine, with no inventory at work
Init == EngineInit /\ InventoryIdle /\ DedupIdle /\ HashIdle

Next ==
    \/ \E p \in Paths, broken \in Broken : DiscoverItem(p, broken)
    \/ \E order \in Orders(Hashed), broken \in Broken : Verify(order, broken)

Spec == Init /\ [][Next]_vars

\* The inventory codec, with the engine at rest
InitInventory == EngineInit /\ InventoryInit /\ DedupIdle /\ HashIdle

NextInventory ==
    \/ Create
    \/ \E fail \in BOOLEAN : ExportGroup(fail)
    \/ \E fail \in BOOLEAN : ExportFinish(fail)
    \/ \E fail \in BOOLEAN : Drop(fail)
    \/ Abandon
    \/ Damage
    \/ Open
    \/ NextItem

SpecInventory == InitInventory /\ [][NextInventory]_vars

\* The inventory of src/inventory.rs written by scan and read back
InitBincode == EngineInit /\ BincodeInit /\ DedupIdle /\ HashIdle

NextBincode ==
    \/ BincodeCreate
    \/ BincodeExport
    \/ BincodeOpen
    \/ BincodeNext

SpecBincode == InitBincode /\ [][NextBincode]_vars

\* dedup over an inventory and a file system
InitDedup == EngineInit /\ InventoryIdle /\ DedupInit /\ HashIdle

NextDedup ==
    \/ ReadItem
    \/ \E rm_fail, ln_fail \in BOOLEAN : LinkDestination(rm_fail, ln_fail)
    \/ FinishGroup

SpecDedup == InitDedup /\ [][NextDedup]_vars

\* discover on any files in any order, every checksum_file call succeeding
NextUnbroken == \E p \in Paths : DiscoverItem(p, NoPath)

SpecUnbroken == Init /\ [][NextUnbroken]_vars

\* discover called twice on one tree, with either filter
InitRescan ==
    /\ \E kind \in {"NoFilter", "DefaultFilter"} : EngineNew(kind) /\ ChannelIdle(kind)
    /\ tree \in Trees
    /\ walk = [call |-> 1, pos |-> 1]
    /\ InventoryIdle /\ DedupIdle /\ HashIdle

NextRescan ==
    \/ \E broken \in Broken : WalkItem(broken)
    \/ ReturnFromDiscover
    \/ \E order \in Orders(Hashed), broken \in Broken : VerifyBetween(order, broken)

SpecRescan == InitRescan /\ [][NextRescan]_vars

\* scan: the main thread and the consumer thread.  Each thread keeps running
\* while it can take a step.
InitScan == ScanInit /\ InventoryIdle /\ DedupIdle /\ HashIdle

MainThread ==
    \/ \E broken \in Broken : ScanItem(broken)
    \/ \E arg_verify \in BOOLEAN : ScanDiscovered(arg_verify)
    \/ \E order \in Orders(Hashed), broken \in Broken : ScanVerify(order, broken)
    \/ ScanReturn
    \/ MainExit

NextScan == MainThread \/ Recv

SpecScan == InitScan /\ [][NextScan]_vars /\ WF_vars(MainThread) /\ WF_vars(Recv)

\* The status channel enabled with any step, and a consumer that may end
\* before the scan does
InitStatus ==
    /\ \E step \in 1..MaxStep : EnabledWith(step)
    /\ InventoryIdle /\ DedupIdle /\ HashIdle

NextStatus == MainThread \/ Recv \/ ReceiverDropped

SpecStatus == InitStatus /\ [][NextStatus]_vars

\* checksum_file on every file, mode and fault of the bounds
InitHash ==
    /\ EngineInit /\ InventoryIdle /\ DedupIdle
    /\ h_content \in Contents
    /\ h_mode \in Modes
    /\ h_fault \in Faults
    /\ h_ret = NotCalled
    /\ e_ext = NoExtension
    /\ e_ret = -1

NextHash == Checksum

SpecHash == InitHash /\ [][NextHash]_vars

\* ext_hash on every extension of the bounds
InitExt ==
    /\ EngineInit /\ InventoryIdle /\ DedupIdle
    /\ h_content = <<>>
    /\ h_mode = Full
    /\ h_fault = NoFault
    /\ h_ret = NotCalled
    /\ e_ext \in Extensions
    /\ e_ret = -1

NextExt == ExtHash

SpecExt == InitExt /\ [][NextExt]_vars

----------------------------------------------------------------------------
(* Claims about the engine *)

\* The record indices, and the file of a record
Indices == 0..(Len(records) - 1)
FileOf(i) == records[i + 1]

\* Two records are yielded by result() in one group.
SameGroup(i, j) == \E g \in result : i \in Range(g) /\ j \in Range(g)

\* No verify has split an entry so far: the engine is in a state that pushes
\* alone produce (a verify that splits nothing changes nothing).
OnlyPushed == full_hash2files = EmptyMap

VerifyStep == last' \in {"verify_ok", "verify_err"}

\* C1: after pushes alone, every two records of one yielded group have the same
\* classification key (extension code and file size).
C1_GroupsShareKey ==
    OnlyPushed =>
        \A g \in result : \A i, j \in Range(g) :
            ClassifyingKey[FileOf(i)] = ClassifyingKey[FileOf(j)]

\* C2 as claimed: after a verify every list of either map lies within one list
\* that existed before it, and two records of different groups before the verify
\* are not in one group after it.
ListsOf(m) == {m[h] : h \in DOMAIN m}

GroupedApart(i, j) ==
    /\ \E g \in result : i \in Range(g)
    /\ \E g \in result : j \in Range(g)
    /\ ~SameGroup(i, j)

C2_VerifyNeverMerges ==
    [][VerifyStep =>
        /\ \A l \in ListsOf(hash2files') \cup ListsOf(full_hash2files') :
              \E l0 \in ListsOf(hash2files) \cup ListsOf(full_hash2files) :
                  Range(l) \subseteq Range(l0)
        /\ \A i, j \in Indices : GroupedApart(i, j) => ~SameGroup(i, j)'
      ]_vars

\* C2 amended: a verify leaves each PartialHashMap list as it was or empties it;
\* each FullHashMap list is its former list followed by records that the verify
\* took out of PartialHashMap and whose full hash is the list's key; records
\* that come to share a group have equal full hashes.
FormerFull(h) == IF h \in DOMAIN full_hash2files THEN full_hash2files[h] ELSE <<>>

C2_VerifySplitsAndMergesByFullHash ==
    [][VerifyStep =>
        /\ DOMAIN hash2files' = DOMAIN hash2files
        /\ \A h \in DOMAIN hash2files :
              hash2files'[h] = hash2files[h] \/ hash2files'[h] = <<>>
        /\ DOMAIN full_hash2files \subseteq DOMAIN full_hash2files'
        /\ \A h \in DOMAIN full_hash2files' :
              LET new == full_hash2files'[h]
                  old == FormerFull(h)
              IN  /\ Len(new) >= Len(old)
                  /\ SubSeq(new, 1, Len(old)) = old
                  /\ \A n \in (Len(old) + 1)..Len(new) :
                        /\ FullHash[FileOf(new[n])] = h
                        /\ \E k \in DOMAIN hash2files :
                              /\ new[n] \in Range(hash2files[k])
                              /\ hash2files'[k] = <<>>
        /\ \A i, j \in Indices :
              (~SameGroup(i, j) /\ SameGroup(i, j)') =>
                  FullHash[FileOf(i)] = FullHash[FileOf(j)]
      ]_vars

\* C2 witness: a verify has merged into a FullHashMap list that another verify
\* made: the list holds a record pushed after the first split.
C2_Witness ==
    /\ last = "verify_ok"
    /\ \E h \in DOMAIN full_hash2files :
          /\ Len(full_hash2files[h]) >= 2
          /\ \E k \in DOMAIN full_hash2files :
                /\ k # h
                /\ Len(full_hash2files[k]) >= 2

\* C3 as claimed: after a successful verify two records share a group iff the
\* hashes of their whole contents are equal (equal contents, the hash being
\* free of collisions).
C3_GroupIffFullHash ==
    last = "verify_ok" =>
        \A i, j \in Indices :
            i # j => (SameGroup(i, j) <=>
                        FileAt[FileOf(i)].content = FileAt[FileOf(j)].content)

\* C3 amended: after a successful verify two records that share a group have
\* the same checksum_file value in Full mode.
C3_GroupImpliesFullHash ==
    last = "verify_ok" =>
        \A i, j \in Indices :
            SameGroup(i, j) => FullHash[FileOf(i)] = FullHash[FileOf(j)]

\* C3 witness: a successful verify has split an entry and a group of records
\* with one full hash is yielded from FullHashMap.
C3_Witness ==
    /\ last = "verify_ok"
    /\ \E h \in DOMAIN hash2files : hash2files[h] = <<>>
    /\ \E h \in DOMAIN full_hash2files : is_yielded(full_hash2files[h])

\* C4: no two records have the same inode, and an iteration of discover whose
\* file has an inode of the inode set appends no record and changes no map,
\* no slot and not the duplicated counter.
NoInodeTwice ==
    \A i, j \in Indices : i # j => FileAt[FileOf(i)].ino # FileAt[FileOf(j)].ino

C4_InodeOnce ==
    [][ /\ NoInodeTwice'
        /\ (last' = "discover" /\ FileAt[item'].ino \in inode_set) =>
              /\ UNCHANGED <<records, inode_set, set, hash2files, full_hash2files>>
              /\ status'.duplicated = status.duplicated
      ]_vars

\* C4 witness: path 1 and its hard link, path 3, were both scanned: one record,
\* and result() yields nothing.
C4_Witness ==
    /\ item = 3
    /\ status.scanned = 2
    /\ records = <<1>>
    /\ result = {}

\* C5: no record index is in a PartialHashMap list and in a FullHashMap list.
InPartial(i) == \E h \in DOMAIN hash2files : i \in Range(hash2files[h])
InFull(i) == \E h \in DOMAIN full_hash2files : i \in Range(full_hash2files[h])

C5_PartialFullDisjoint == \A i \in Indices : ~(InPartial(i) /\ InFull(i))

\* C5 witness: a verify split one entry and then failed on another, which is
\* still in PartialHashMap.
C5_Witness ==
    /\ last = "verify_err"
    /\ conflict_count > 0
    /\ \E i \in Indices : InFull(i)
    /\ \E h \in DOMAIN hash2files : Len(hash2files[h]) >= 2

\* C6: every group that result() yields has at least 2 members.
C6_NoSingletonGroup == \A g \in result : Len(g) >= 2

\* C6 witness: result() yields a group while PartialHashMap also holds a
\* singleton list made on a FirstSeen transition.
C6_Witness ==
    /\ result # {}
    /\ \E h \in DOMAIN hash2files : Len(hash2files[h]) = 1

----------------------------------------------------------------------------
(* Claims about the inventory codec *)

\* The item next() returns for a group that decodes
OkItem(g) == [ok |-> TRUE, files |-> g]

\* export returned Ok and the writer was dropped with its last flush done.
Exported == writer.pc = "closed_ok"

\* The writer is gone and the header was not rewritten on disk.
Unfinished == writer.pc \in {"closed_err", "abandoned"}

\* C7: after an export that returned Ok, a reader of the file yields the exported
\* groups in order, each decoded with the inodes and path bytes that were
\* written, and as many of them as were exported.
C7_RoundTrip ==
    (Exported /\ ~damaged /\ reader.pc = "open") =>
        /\ reader.header.count = Len(input)
        /\ Len(yielded) <= Len(input)
        /\ \A k \in 1..Len(yielded) : yielded[k] = OkItem(input[k])
        /\ ret = "None" => Len(yielded) = Len(input)

\* C7 witness: two groups were read back to the end, among their paths one with
\* a byte 255 and one with a NUL.
HasPathByte(items, b) ==
    \E k \in 1..Len(items) : \E n \in 1..Len(items[k].files) :
        b \in Range(items[k].files[n].path)

C7_Witness ==
    /\ Exported /\ ~damaged
    /\ ret = "None"
    /\ Len(yielded) = 2
    /\ \A k \in 1..2 : yielded[k].ok
    /\ HasPathByte(yielded, 255)
    /\ HasPathByte(yielded, 0)

\* C8: after a successful export the header on disk is version 1, offset 6 (the
\* header's size) and the count of groups written.
C8_HeaderAfterExport ==
    (Exported /\ ~damaged) =>
        SubSeq(file, 1, HEADER_LEN) =
            <<CURRENT_VERSION, HEADER_LEN>> \o write_u32_le(writer.count)

\* C9 as claimed: when export has taken a group and the header was not rewritten,
\* the file has the placeholder header with count 0 and a reader yields nothing.
C9_PlaceholderHeader ==
    (Unfinished /\ ~damaged /\ writer.count >= 1) =>
        /\ Len(file) >= HEADER_LEN
        /\ read_header(file).count = 0
        /\ yielded = <<>>

\* C9 amended: when the header was not rewritten, the file is empty (the
\* placeholder never left the BufWriter, and open fails) or starts with the
\* placeholder header with count 0; a reader yields no group.
C9_NoGroupFromUnfinishedExport ==
    Unfinished =>
        /\ yielded = <<>>
        /\ reader.pc = "open" => reader.header.count = 0
        /\ ~damaged =>
              \/ file = <<>> /\ reader.pc \in {"none", "open_failed"}
              \/ Len(file) >= HEADER_LEN /\ read_header(file).count = 0

\* C9 witness: export failed on its second group with the first one written to
\* the file; a reader was opened and its next() returned None.
C9_Witness ==
    /\ writer.pc = "closed_err"
    /\ writer.count = 2
    /\ ~damaged
    /\ Len(file) > HEADER_LEN + 4
    /\ reader.pc = "open"
    /\ ret = "None"

\* C10: the reader returns at most header.count items, and once it has returned
\* that many, next() returns None and nothing else.
C10_AtMostCount ==
    [][ /\ reader'.pc \in {"open", "panicked"} =>
              Len(yielded') <= reader'.header.count
        /\ (reader.pc = "open" /\ Len(yielded) = reader.header.count) =>
              /\ yielded' = yielded
              /\ reader'.pc = "open" => ret' = "None"
      ]_vars

\* C10 witness: on a damaged file two items were returned, one of them an Err,
\* and then None.
C10_Witness ==
    /\ damaged
    /\ reader.pc = "open"
    /\ reader.header.count = 2
    /\ Len(yielded) = 2
    /\ \E k \in 1..2 : ~yielded[k].ok
    /\ ret = "None"

----------------------------------------------------------------------------
(* Claims about the link applier *)

\* The keeper of the group dedup took as item g: the path of its first file
Keeper(g) == inventory[g].files[1].path

\* dedup has gone through every destination of the group it holds.
GroupDone ==
    /\ HasItem
    /\ inventory[at.g].ok
    /\ at.k >= 2
    /\ at.k > Len(inventory[at.g].files)

\* C11: remove_file never unlinks the path of the first file of the group at
\* hand, and when the group is done that path names the inode it named when
\* the group was taken up.
C11_KeeperNeverUnlinked ==
    /\ \A n \in 1..Len(calls) :
          (calls[n].op = "remove_file" /\ calls[n].ok) =>
              calls[n].path # Keeper(calls[n].g)
    /\ GroupDone => fs[Keeper(at.g)] = fs0[Keeper(at.g)]

\* C12: a destination that names the keeper's inode is passed over: no system
\* call, no change of the file system, no line on stderr.
C12_SharedInodeSkipped ==
    [][ (AtDestination /\ fs[Source] # NoFile /\ fs[Destination] = fs[Source]) =>
            /\ calls' = calls
            /\ fs' = fs
            /\ reported' = reported
      ]_vars

----------------------------------------------------------------------------
(* Claims about checksum_file and ext_hash *)

\* checksum_file returned Ok and every read it made succeeded.
HashedWithoutFault == h_ret.called /\ h_ret.ret.ok /\ ~h_ret.ret.read_failed

\* C13: in Full mode the bytes fed to the hasher are the bytes of the file.
C13_FullFeedsContent ==
    (HashedWithoutFault /\ h_mode = Full) => h_ret.ret.hash = h_content

\* C14: in Part(N) mode the bytes fed to the hasher are the first
\* min(N, file size) bytes of the file.
C14_PartFeedsPrefix ==
    (HashedWithoutFault /\ h_mode.tag = "Part") =>
        h_ret.ret.hash = SubSeq(h_content, 1, Min(h_mode.size, Len(h_content)))

\* C15: checksum_file returns Err when the open fails or a read fails.
C15_ErrOnOpenOrReadFailure ==
    h_ret.called =>
        /\ ~h_fault.open_ok => ~h_ret.ret.ok
        /\ h_ret.ret.ok => ~h_ret.ret.read_failed

\* The extension with its upper-case letters in lower case
Lower(e) ==
    IF e.some
    THEN [some |-> TRUE,
          bytes |-> [i \in 1..Len(e.bytes) |->
                       IF e.bytes[i] \in 65..90 THEN e.bytes[i] + 32 ELSE e.bytes[i]]]
    ELSE e

\* C17: ext_hash gives an extension the code of its lower-case spelling, and
\* gives 0 to a path with no extension.
C17_ExtHashIgnoresCase ==
    e_ret # -1 =>
        /\ e_ret = ext_hash_of(Lower(e_ext))
        /\ ~e_ext.some => e_ret = 0

\* C17 witness: ext_hash was called on an extension with letters of both
\* cases and a digit, and gave a code other than 0.
C17_Witness ==
    /\ e_ret > 0
    /\ e_ext.some
    /\ \E i \in 1..Len(e_ext.bytes) : e_ext.bytes[i] \in 65..90
    /\ \E i \in 1..Len(e_ext.bytes) : e_ext.bytes[i] \in 97..122
    /\ \E i \in 1..Len(e_ext.bytes) : e_ext.bytes[i] \in 48..57

\* An entry of hash2files that verify has to settle: more than one index, and
\* files of more than one content.
Unsettled(h) ==
    /\ Len(hash2files[h]) > 1
    /\ is_conflict(full_checksum_map(records, hash2files[h]))

\* C19: a file that fails to open is not fatal.  verify does not return an
\* error, and when it has returned every entry that lists only files that
\* open has been settled.  (An iteration of discover whose push fails is
\* followed by the next iteration: discover has no error return in its loop.)
C19_FailureNotFatal ==
    /\ last # "verify_err"
    /\ last \in {"verify_ok", "verify_err"} =>
          \A h \in DOMAIN hash2files :
              (\A i \in Range(hash2files[h]) : records[i + 1] \notin Unreadable)
                  => ~Unsettled(h)

\* The record indices listed under partial hash h
Listed(h2f, h) == IF h \in DOMAIN h2f THEN Range(h2f[h]) ELSE {}

\* C20: push only adds to hash2files: every index listed under a partial hash
\* before an iteration of discover is listed under it after the iteration.
C20_PushOnlyAppends ==
    [][ last' = "discover" =>
            \A h \in DOMAIN hash2files :
                Listed(hash2files, h) \subseteq Listed(hash2files', h) ]_vars

\* An iteration of discover left a list of hash2files longer by the pushed
\* index, with at least two members.
PushMadeGroup ==
    \E h \in DOMAIN hash2files' :
        /\ Len(hash2files'[h]) >= 2
        /\ h \in DOMAIN hash2files => hash2files'[h] # hash2files[h]

\* C21: an iteration of discover adds one to the duplicated counter exactly
\* when the push left the list of the file's partial hash with at least two
\* members, and else leaves the counter as it was.
C21_DuplicatedCountsGroups ==
    [][ last' = "discover" =>
            status'.duplicated =
                status.duplicated + (IF PushMadeGroup THEN 1 ELSE 0) ]_vars

\* The full hashes of the records listed under partial hash h
FullHashesOf(h) == {FullHash[FileOf(i)] : i \in Range(hash2files[h])}

\* The entries with at least two members whose members differ in full hash
SplitEntries ==
    {h \in DOMAIN hash2files :
        Len(hash2files[h]) >= 2 /\ Cardinality(FullHashesOf(h)) > 1}

\* The members of the split entries whose full hash is f
MovedTo(f) ==
    {i \in UNION {Range(hash2files[h]) : h \in SplitEntries} :
        FullHash[FileOf(i)] = f}

RECURSIVE SumOfFullHashes(_)
SumOfFullHashes(hs) ==
    IF hs = {} THEN 0
    ELSE LET h == CHOOSE x \in hs : TRUE
         IN  Cardinality(FullHashesOf(h)) + SumOfFullHashes(hs \ {h})

\* C22: a verify that returns a count leaves every entry whose members have
\* one full hash (and every entry of fewer than two members) as it was and
\* adds none of its members to FullHashMap; it empties every other entry and
\* appends each of its members to the FullHashMap list of the member's full
\* hash; the count is the sum, over the emptied entries, of the number of
\* distinct full hashes of the entry.
C22_VerifySplitsByFullHash ==
    [][ last' = "verify_ok" =>
        /\ DOMAIN hash2files' = DOMAIN hash2files
        /\ \A h \in DOMAIN hash2files :
              hash2files'[h] = IF h \in SplitEntries THEN <<>> ELSE hash2files[h]
        /\ DOMAIN full_hash2files' =
              DOMAIN full_hash2files \cup UNION {FullHashesOf(h) : h \in SplitEntries}
        /\ \A f \in DOMAIN full_hash2files' :
              /\ Len(full_hash2files'[f]) =
                    Len(FormerFull(f)) + Cardinality(MovedTo(f))
              /\ SubSeq(full_hash2files'[f], 1, Len(FormerFull(f))) = FormerFull(f)
              /\ Range(full_hash2files'[f]) = Range(FormerFull(f)) \cup MovedTo(f)
        /\ conflict_count' = SumOfFullHashes(SplitEntries)
      ]_vars

\* C22 witness: one verify left an entry of two equal files as it was, emptied
\* an entry of two files that differ, and returned 2.
C22_Witness ==
    /\ last = "verify_ok"
    /\ conflict_count = 2
    /\ \E h \in DOMAIN hash2files : Len(hash2files[h]) = 2
    /\ \E h \in DOMAIN hash2files : hash2files[h] = <<>>
    /\ Cardinality(DOMAIN full_hash2files) = 2

\* C24: in every group that result() yields the record indices increase
\* strictly, so that the first member is the group's earliest-pushed record.
C24_GroupsInPushOrder ==
    \A g \in result : \A m, n \in 1..Len(g) : m < n => g[m] < g[n]

\* An iteration of discover pushed a file that opens, as a new record whose
\* classification key the map already held.
PushedReadableOfKnownKey ==
    /\ last' = "discover"
    /\ Len(records') = Len(records) + 1
    /\ ClassifyingKey[item'] \in DOMAIN set
    /\ item' \notin Unreadable

\* C26: a failure of hashing skips only the file that failed.  A file that
\* opens and whose key is known is listed in PartialHashMap by its push, also
\* when the hashing of another file of the key fails.
C26_OnlyFailedFileSkipped ==
    [][ PushedReadableOfKnownKey =>
            \E h \in DOMAIN hash2files' : Len(records) \in Range(hash2files'[h])
      ]_vars

\* The lists of both maps, each with the map and key it stands under
Entries ==
    {[map |-> "partial", key |-> h, list |-> hash2files[h]] : h \in DOMAIN hash2files}
    \cup
    {[map |-> "full", key |-> h, list |-> full_hash2files[h]] :
        h \in DOMAIN full_hash2files}

\* C30: every index in a list of PartialHashMap or FullHashMap is the index of
\* a record, no list holds an index twice, and no two lists share an index.
C30_IndicesValidAndUnique ==
    /\ \A e \in Entries : Range(e.list) \subseteq Indices
    /\ \A e \in Entries : \A m, n \in 1..Len(e.list) : m # n => e.list[m] # e.list[n]
    /\ \A e, f \in Entries : e # f => Range(e.list) \cap Range(f.list) = {}

\* C30 witness: three lists of two records each, one in PartialHashMap and two
\* that a verify put in FullHashMap.
C30_Witness ==
    /\ Cardinality({e \in Entries : e.map = "partial" /\ Len(e.list) >= 2}) >= 1
    /\ Cardinality({e \in Entries : e.map = "full" /\ Len(e.list) >= 1}) >= 2
    /\ Len(records) = 4

----------------------------------------------------------------------------
\* Claims about a discover in which no hashing fails (SpecUnbroken)

\* Another record has the classification key of record i.
SharesKey(i) ==
    \E j \in Indices : j # i /\ ClassifyingKey[FileOf(j)] = ClassifyingKey[FileOf(i)]

\* C23: while no hashing fails, a record that is alone with its classification
\* key has not been hashed, a record whose key another record has was hashed
\* exactly once, and a file that is no record was not hashed.
C23_HashedAtMostOnce ==
    /\ \A i \in Indices :
          part_hashed[FileOf(i)] = IF SharesKey(i) THEN 1 ELSE 0
    /\ \A q \in Paths \ Range(records) : part_hashed[q] = 0

\* C23 witness: four records; three share a key and were hashed once each, the
\* fourth is alone with its key and was not hashed.
C23_Witness ==
    /\ Len(records) = 4
    /\ Cardinality({i \in Indices : SharesKey(i) /\ part_hashed[FileOf(i)] = 1}) = 3
    /\ Cardinality({i \in Indices : ~SharesKey(i) /\ part_hashed[FileOf(i)] = 0}) = 1

\* C27 (SpecHash): in no iteration of the loop of checksum_file does
\* compare_size - hashed_size go below zero.
C27_NoUnderflow ==
    (h_ret.called /\ h_ret.ret.ok) => ~h_ret.ret.underflow

----------------------------------------------------------------------------
\* Claims about the bincode inventory (SpecBincode)

\* C28: the header that export writes at offset 0 takes as many bytes as the
\* placeholder of create, the bytes of the groups stand after it as they were
\* written, and the reader, once it has returned None, has yielded every group.
C28_HeaderFitsPlaceholder ==
    Exported =>
        /\ Len(encode_header(bincode_new_header(Len(input)))) =
              Len(encode_header(Header_default))
        /\ SubSeq(file, Len(encode_header(Header_default)) + 1, Len(file)) =
              encode_groups(input, 1, Len(input))
        /\ ret = "None" => yielded = [k \in 1..Len(input) |-> OkItem(input[k])]

\* The engine after the files of seq, from the n-th on, are pushed on E in
\* that order, every hashing succeeding
RECURSIVE PushedInOrder(_, _, _)
PushedInOrder(E, seq, n) ==
    IF n > Len(seq) THEN E
    ELSE PushedInOrder(push(E, seq[n], NoPath), seq, n + 1)

NewEngine ==
    [records |-> <<>>, inode_set |-> {}, set |-> EmptyMap, hash2files |-> EmptyMap,
     full_hash2files |-> EmptyMap, duplicated |-> 0]

\* The groups that result() yields on engine E, each as the set of its files
GroupSetOf(E) ==
    {{E.records[i + 1] : i \in Range(l)} :
        l \in {m \in ListsOf(E.hash2files) \cup ListsOf(E.full_hash2files) : Len(m) > 1}}

\* C29: the groups of result() after a discover are those that the same files
\* give when they are pushed in any other order.
C29_GroupsIgnoreOrder ==
    \A order \in Orders(Range(records)) :
        GroupSetOf(PushedInOrder(NewEngine, order, 1)) = GroupSetOf(Engine)

----------------------------------------------------------------------------
\* Claims about a second call of discover (SpecRescan)

\* A step of the second call of discover: an item of the walk, or its return.
SecondDiscoverStep == walk.call = 2 /\ walk' # walk

\* C16: a second call of discover on the same engine over the same tree adds
\* no record, changes no slot of the classifying map and no list of either
\* hash map, and result() yields the groups it yielded before.
C16_RescanIdempotent ==
    [][ SecondDiscoverStep =>
            /\ records' = records
            /\ set' = set
            /\ hash2files' = hash2files
            /\ full_hash2files' = full_hash2files
            /\ result' = result ]_vars

\* C16 witness: the second call has walked a tree of three files that pass
\* the filter, and result() yields a group.
C16_Witness ==
    /\ walk = [call |-> 3, pos |-> 1]
    /\ Len(tree) = 3
    /\ Len(records) = 3
    /\ status.scanned = 6
    /\ result # {}

----------------------------------------------------------------------------
\* Claims about the status channel (SpecScan)

\* C18: once the engine has been dropped, the consumer receives every report
\* that was sent, then sees the closed channel and terminates.
C18_ConsumerDrains ==
    (status_channel = "Dropped") ~> (consumer.pc = "done" /\ consumer.received = sent)

----------------------------------------------------------------------------
\* Claims about the reports of discover (SpecStatus)

\* C25: with the channel enabled with step k, the reports sent so far are one
\* for each positive multiple of k that the scanned counter has reached, each
\* carrying that multiple, in increasing order; the consumer has received the
\* first of them, in that order; and an iteration of discover can be taken
\* whether the consumer still runs or not.
C25_ReportEveryStep ==
    /\ Len(sent) = status.scanned \div status_report_step
    /\ \A n \in 1..Len(sent) : sent[n].scanned = n * status_report_step
    /\ Len(consumer.received) <= Len(sent)
    /\ consumer.received = SubSeq(sent, 1, Len(consumer.received))
    /\ \A m, n \in 1..Len(consumer.received) :
          m < n => consumer.received[m].scanned < consumer.received[n].scanned
    /\ (scan_pc = "discover" /\ InWalk) => ENABLED ScanItem(NoPath)

\* C25 witness: the consumer ended after the first report, the scan went on,
\* sent a second report and came to its end.
C25_Witness ==
    /\ consumer.pc = "dropped"
    /\ Len(consumer.received) = 1
    /\ Len(sent) = 2
    /\ sent[2].scanned = 4
    /\ scan_pc = "exited"

====
